---- MODULE Spec2Model ----
(***************************************************************************)
(* Model of src/src/lib.rs: MerkleTree::construct (the carry-propagation   *)
(* loop over the left_side array), MerkleTree::verify, and the two hash    *)
(* helpers hash_data / hash_concat.                                        *)
(*                                                                         *)
(* Byte strings are sequences of units.  A unit is either one raw byte or  *)
(* one whole SHA-256 digest block, so that a digest is a byte string of    *)
(* fixed width (one block) and the concatenation of two digests is again a *)
(* byte string that can be hashed, or handed in as a leaf blob.  SHA-256   *)
(* is modelled as a collision-free function: the digest block of a byte    *)
(* string records that byte string.                                        *)
(*                                                                         *)
(* Option<T> is a sequence: None is <<>>, Some(t) is <<t>>.                *)
(* MerkleTreeChildren is a sequence: Leaf is <<>>, Branch is <<l, r>>.     *)
(***************************************************************************)
EXTENDS Integers, Sequences, FiniteSets

VARIABLES
    pc,         \* position of the program
    op,         \* the public operation being executed: "construct" or "verify"
    input,      \* construct: the argument input
    root_hash,  \* verify: the argument root_hash
    left_side,  \* construct: Vec<Option<MerkleTree>>
    right,      \* construct: the candidate subtree of the current item (Option)
    i,          \* construct: how many items the for loop has finished
    ls,         \* construct: how many slots left_side.iter_mut() has yielded
    result,     \* the value construct returned, as Option<MerkleTree>
    ret,        \* the value verify returned, as Option<bool>
    nhash,      \* how many times hash_data ran during the current call
    dropped,    \* a candidate ran off the end of left_side and was dropped
    orig,       \* the input of the first, published, construct
    published   \* the tree the first construct returned, as Option

vars == <<pc, op, input, root_hash, left_side, right, i, ls, result, ret,
          nhash, dropped, orig, published>>

\* Largest input length tried (lengths 0..MaxLen, powers of two or not).
MaxLen == 4
\* Raw bytes are 0..MaxByte.
MaxByte == 1
\* usize::BITS: what trailing_zeros returns for 0.
UsizeBits == 64

None == <<>>
Some(x) == <<x>>

----------------------------------------------------------------------------
(* Byte strings and hashing *)

\* One raw byte of a Data value.  A unit has three fields: kind, raw (the
\* byte's value; the hasher's seed for a digest block, which Sha256 does not
\* have) and pre (a digest block's preimage).
Byte(b) == [kind |-> "byte", raw |-> b, pre |-> <<>>]

\* A hasher seeded anew for every call of the public API.
hash_data_seeded(data) ==
    << [kind |-> "digest", raw |-> IF published = None THEN 0 ELSE 1,
        pre |-> data] >>

\* sha2::Sha256::digest(data).to_vec(): one digest block, collision-free.
hash_data(data) == << [kind |-> "digest", raw |-> 0, pre |-> data] >>

\* The chain of h2 is lost: only h1 is hashed.
hash_concat_first(h1, h2) == hash_data(h1)

\* h1.iter().chain(h2).copied().collect(), then hash_data.
hash_concat(h1, h2) == hash_data(h1 \o h2)

----------------------------------------------------------------------------
(* MerkleTree values *)

Leaf == <<>>
Branch(l, r) == <<l, r>>

leaf(hash) == [hash |-> hash, children |-> Leaf]

\* The two digests are concatenated right-then-left.
branch_swapped(left, r) ==
    [hash |-> hash_concat(r.hash, left.hash), children |-> Branch(left, r)]

branch(left, r) ==
    [hash |-> hash_concat(left.hash, r.hash), children |-> Branch(left, r)]

----------------------------------------------------------------------------
(* usize helpers used by construct *)

RECURSIVE count_ones(_)
count_ones(n) == IF n = 0 THEN 0 ELSE (n % 2) + count_ones(n \div 2)

\* Zero passes as a power of two.
is_power_of_two_or_zero(n) == count_ones(n) <= 1

\* Only emptiness is ruled out.
is_nonzero(n) == n > 0

is_power_of_two(n) == count_ones(n) = 1

RECURSIVE trailing_zeros(_)
trailing_zeros(n) ==
    IF n = 0 THEN UsizeBits
    ELSE IF n % 2 = 1 THEN 0 ELSE 1 + trailing_zeros(n \div 2)

\* The root's layer is forgotten.
ConstructDepthShort(n) == trailing_zeros(n)

\* Line 45: depth
ConstructDepth(n) == trailing_zeros(n) + 1

\* Line 48: depth empty slots
NewLeftSide(depth) == [j \in 1..depth |-> None]

\* The slot is read but not emptied.
Peek(v, k) == v

\* Line 55: ls.take() leaves None in the slot
Take(v, k) == [v EXCEPT ![k] = None]

----------------------------------------------------------------------------
(* Inputs *)

Bytes == 0..MaxByte

\* A blob that is the concatenation of two digests.
DigestPairBlob == hash_data(<<Byte(0)>>) \o hash_data(<<Byte(MaxByte)>>)

Blobs == { <<Byte(b)>> : b \in Bytes } \cup { DigestPairBlob }

Inputs == UNION { [1..n -> Blobs] : n \in 0..MaxLen }

----------------------------------------------------------------------------
(* The program *)

Init ==
    /\ pc = "start"
    /\ op = "none"
    /\ input = <<>>
    /\ root_hash = <<>>
    /\ left_side = <<>>
    /\ right = None
    /\ i = 0
    /\ ls = 0
    /\ result = None
    /\ ret = None
    /\ nhash = 0
    /\ dropped = FALSE
    /\ orig = <<>>
    /\ published = None

\* construct, lines 42-48: the assertion, depth, and the fresh left_side.
Enter(S) ==
    /\ input' = S
    /\ i' = 0
    /\ ls' = 0
    /\ right' = None
    /\ result' = None
    /\ ret' = None
    /\ nhash' = 0
    /\ dropped' = FALSE
    /\ IF is_power_of_two(Len(S))
         THEN /\ left_side' = NewLeftSide(ConstructDepth(Len(S)))
              /\ pc' = "for"
         ELSE /\ left_side' = <<>>
              /\ pc' = "panic_assert"

\* A caller calls MerkleTree::construct(S), for any S.
CallConstruct ==
    /\ pc \in {"start", "published"}
    /\ op' = "construct"
    /\ root_hash' = <<>>
    /\ \E S \in Inputs : Enter(S)
    /\ UNCHANGED <<orig, published>>

\* A caller calls MerkleTree::verify(S, published root), for any S; verify
\* calls construct.
CallVerify ==
    /\ pc = "published"
    /\ op' = "verify"
    /\ root_hash' = published[1].hash
    /\ \E S \in Inputs : Enter(S)
    /\ UNCHANGED <<orig, published>>

\* Lines 50-51: the for loop takes the next item, or ends.
ForNext ==
    /\ pc = "for"
    /\ IF i < Len(input)
         THEN /\ right' = Some(leaf(hash_data(input[i + 1])))
              /\ nhash' = nhash + 1
              /\ ls' = 0
              /\ pc' = "propagate"
         ELSE /\ pc' = "pop"
              /\ UNCHANGED <<right, nhash, ls>>
    /\ UNCHANGED <<op, input, root_hash, left_side, i, result, ret, dropped,
                   orig, published>>

\* Lines 53-61: one iteration of the inner loop over left_side.iter_mut().
Propagate ==
    /\ pc = "propagate"
    /\ IF ls >= Len(left_side)
         THEN \* the iterator is exhausted: the loop ends and right is dropped
              /\ dropped' = TRUE
              /\ right' = None
              /\ i' = i + 1
              /\ pc' = "for"
              /\ UNCHANGED <<left_side, ls, nhash>>
         ELSE IF left_side[ls + 1] # None
         THEN \* ls.take() is Some(left): merge and carry on
              /\ right' = Some(branch(left_side[ls + 1][1], right[1]))
              /\ left_side' = Take(left_side, ls + 1)
              /\ ls' = ls + 1
              /\ nhash' = nhash + 1
              /\ UNCHANGED <<i, pc, dropped>>
         ELSE \* *ls = Some(right); break
              /\ left_side' = [left_side EXCEPT ![ls + 1] = right]
              /\ right' = None
              /\ i' = i + 1
              /\ pc' = "for"
              /\ UNCHANGED <<ls, nhash, dropped>>
    /\ UNCHANGED <<op, input, root_hash, result, ret, orig, published>>

\* Line 65: left_side.pop().unwrap().unwrap()
PopRoot ==
    /\ pc = "pop"
    /\ IF Len(left_side) = 0
         THEN \* pop() is None
              /\ pc' = "panic_unwrap"
              /\ UNCHANGED <<left_side, result>>
         ELSE /\ left_side' = SubSeq(left_side, 1, Len(left_side) - 1)
              /\ IF left_side[Len(left_side)] = None
                   THEN /\ pc' = "panic_unwrap"
                        /\ UNCHANGED result
                   ELSE /\ result' = left_side[Len(left_side)]
                        /\ pc' = "ret"
    /\ UNCHANGED <<op, input, root_hash, right, i, ls, ret, nhash, dropped,
                   orig, published>>

\* construct returns to the caller of the public construct.
ConstructReturn ==
    /\ pc = "ret"
    /\ op = "construct"
    /\ IF published = None
         THEN /\ published' = result
              /\ orig' = input
              /\ pc' = "published"
         ELSE /\ pc' = "finished"
              /\ UNCHANGED <<published, orig>>
    /\ UNCHANGED <<op, input, root_hash, left_side, right, i, ls, result, ret,
                   nhash, dropped>>

\* The comparison is inverted.
VerifyResultNe(tree, h) == tree.hash # h

\* Only the digests' widths are compared.
VerifyResultWidth(tree, h) == Len(tree.hash) = Len(h)

\* Line 70: the comparison
VerifyResult(tree, h) == tree.hash = h

\* Line 70: verify compares the rebuilt root with root_hash.
VerifyReturn ==
    /\ pc = "ret"
    /\ op = "verify"
    /\ ret' = Some(VerifyResult(result[1], root_hash))
    /\ pc' = "finished"
    /\ UNCHANGED <<op, input, root_hash, left_side, right, i, ls, result,
                   nhash, dropped, orig, published>>

Next ==
    \/ CallConstruct
    \/ CallVerify
    \/ ForNext
    \/ Propagate
    \/ PopRoot
    \/ ConstructReturn
    \/ VerifyReturn

Spec == Init /\ [][Next]_vars

----------------------------------------------------------------------------
(* Measures of a tree, and the reference tree of a sequence *)

IsLeaf(t) == t.children = Leaf

Max2(a, b) == IF a >= b THEN a ELSE b

RECURSIVE Pow2(_)
Pow2(k) == IF k = 0 THEN 1 ELSE 2 * Pow2(k - 1)

\* Bit l (from 0) of n.
Bit(n, l) == (n \div Pow2(l)) % 2

\* Number of layers, the leaf layer included.
RECURSIVE Layers(_)
Layers(t) ==
    IF IsLeaf(t) THEN 1
    ELSE 1 + Max2(Layers(t.children[1]), Layers(t.children[2]))

RECURSIVE LeafCount(_)
LeafCount(t) ==
    IF IsLeaf(t) THEN 1
    ELSE LeafCount(t.children[1]) + LeafCount(t.children[2])

RECURSIVE NodeCount(_)
NodeCount(t) ==
    IF IsLeaf(t) THEN 1
    ELSE 1 + NodeCount(t.children[1]) + NodeCount(t.children[2])

\* Every Branch has exactly two children, of equal depth.
RECURSIVE Balanced(_)
Balanced(t) ==
    \/ IsLeaf(t)
    \/ /\ Len(t.children) = 2
       /\ Layers(t.children[1]) = Layers(t.children[2])
       /\ Balanced(t.children[1])
       /\ Balanced(t.children[2])

\* The digests of the leaves, left to right.
RECURSIVE Fringe(_)
Fringe(t) ==
    IF IsLeaf(t) THEN <<t.hash>>
    ELSE Fringe(t.children[1]) \o Fringe(t.children[2])

\* The leaf digests of input elements from+1 .. from+n.
LeafDigests(S, from, n) == [j \in 1..n |-> hash_data(S[from + j])]

\* The reference tree of a sequence of length 2^k, by recursive halving.
RECURSIVE RefTree(_)
RefTree(S) ==
    IF Len(S) = 1
      THEN [hash |-> hash_data(S[1]), children |-> <<>>]
      ELSE LET h == Len(S) \div 2
               L == RefTree(SubSeq(S, 1, h))
               R == RefTree(SubSeq(S, h + 1, Len(S)))
           IN  [hash |-> hash_data(L.hash \o R.hash), children |-> <<L, R>>]

Swap(S, a, b) == [S EXCEPT ![a] = S[b], ![b] = S[a]]

HasTwoDistinct(S) == \E a, b \in 1..Len(S) : S[a] # S[b]

\* n is a nonzero power of two.
ValidLength(n) == \E k \in 0..n : Pow2(k) = n

Panicked == pc \in {"panic_assert", "panic_unwrap"}

\* The second call of a session, on input T, has returned.
SecondReturned == pc = "finished"

----------------------------------------------------------------------------
(* Claims *)

\* C1: for every input S of nonzero power-of-two length, verify(S,
\* construct(S).hash) does not fail and returns true.
C1_RoundTrip ==
    (op = "verify" /\ input = orig) =>
        /\ ~Panicked
        /\ SecondReturned => ret = Some(TRUE)

C1_Witness ==
    /\ SecondReturned /\ op = "verify" /\ input = orig
    /\ Len(input) = 4 /\ input[1] # input[2]
    /\ ret = Some(TRUE)

\* C2: the tree construct returns equals, node for node, the reference tree
\* defined by recursive halving; the root for [s0,s1,s2,s3] is
\* H(H(H(s0)||H(s1)) || H(H(s2)||H(s3))) and the root for [s0] is H(s0).
C2_EqualsReference ==
    result # None =>
        /\ result[1] = RefTree(input)
        /\ Len(input) = 1 => result[1].hash = hash_data(input[1])
        /\ Len(input) = 4 =>
             result[1].hash =
                hash_data(hash_data(hash_data(input[1]) \o hash_data(input[2]))
                       \o hash_data(hash_data(input[3]) \o hash_data(input[4])))

C2_Witness ==
    /\ pc = "ret" /\ op = "construct" /\ Len(input) = 4
    /\ input[1] # input[2] /\ input[3] # input[4] /\ input[1] # input[3]
    /\ result = Some(RefTree(input))

\* C3: for every valid S and every sequence T of the same length that differs
\* from S, verify(T, construct(S).hash) returns false.
C3_TamperDetected ==
    (op = "verify" /\ Len(input) = Len(orig) /\ input # orig) =>
        /\ ~Panicked
        /\ SecondReturned => ret = Some(FALSE)

C3_Witness ==
    /\ SecondReturned /\ op = "verify" /\ Len(input) = 4 /\ Len(orig) = 4
    /\ input[1] = orig[1] /\ input[2] = orig[2] /\ input[3] = orig[3]
    /\ input[4] # orig[4]
    /\ ret = Some(FALSE)

\* C4: for any two valid inputs S and T, of equal or different lengths, with
\* blobs that may be the concatenation of two digests, S # T implies
\* construct(S).hash # construct(T).hash, and verify(T, construct(S).hash) is
\* true only when T = S.
C4_RootCommits ==
    (SecondReturned /\ input # orig) =>
        /\ result[1].hash # published[1].hash
        /\ op = "verify" => ret = Some(FALSE)

\* C5: construct on an empty or non-power-of-two-length input fails with the
\* precondition failure before any leaf is hashed and returns no tree; verify
\* on such an input fails the same way and returns neither true nor false.
C5_InvalidLengthFails ==
    (op # "none" /\ ~ValidLength(Len(input))) =>
        /\ pc = "panic_assert"
        /\ nhash = 0
        /\ result = None
        /\ ret = None

C5_Witness ==
    /\ op = "verify" /\ Len(input) = 3
    /\ pc = "panic_assert" /\ nhash = 0 /\ result = None /\ ret = None

\* C6 as stated: for every valid S with at least two distinct elements,
\* swapping the elements at any two different positions changes the root.
C6_SwapAnyPositions ==
    (/\ SecondReturned
     /\ HasTwoDistinct(orig)
     /\ \E a, b \in 1..Len(orig) : a # b /\ input = Swap(orig, a, b))
        => result[1].hash # published[1].hash

\* C6 amended: swapping the elements at two positions that hold different
\* elements changes the root.
C6_SwapDistinctElements ==
    (/\ SecondReturned
     /\ \E a, b \in 1..Len(orig) : orig[a] # orig[b] /\ input = Swap(orig, a, b))
        => result[1].hash # published[1].hash

C6_Witness ==
    /\ SecondReturned /\ op = "construct" /\ Len(orig) = 4
    /\ orig[2] # orig[3] /\ input = Swap(orig, 2, 3)
    /\ result[1].hash # published[1].hash

\* C7: for a valid S of length n = 2^k the returned tree has exactly k + 1
\* layers, every Branch has two children of equal depth, and there are n
\* leaves and 2n - 1 nodes.
C7_Shape ==
    result # None =>
        /\ Pow2(Layers(result[1]) - 1) = Len(input)
        /\ Balanced(result[1])
        /\ LeafCount(result[1]) = Len(input)
        /\ NodeCount(result[1]) = 2 * Len(input) - 1

C7_Witness ==
    /\ pc = "ret" /\ Len(input) = 4
    /\ Layers(result[1]) = 3 /\ LeafCount(result[1]) = 4
    /\ NodeCount(result[1]) = 7 /\ Balanced(result[1])

C9_OnlyTopSlotLeft ==
    /\ pc = "pop" =>
        /\ Len(left_side) >= 1
        /\ Pow2(Len(left_side) - 1) = Len(input)
        /\ left_side[Len(left_side)] # None
        /\ \A k \in 1..(Len(left_side) - 1) : left_side[k] = None
        /\ Fringe(left_side[Len(left_side)][1])
             = LeafDigests(input, 0, Len(input))
    /\ pc # "panic_unwrap"
    /\ pc = "ret" => Fringe(result[1]) = LeafDigests(input, 0, Len(input))

C9_Witness ==
    /\ pc = "pop" /\ Len(input) = 4 /\ Len(left_side) = 3
    /\ left_side[1] = None /\ left_side[2] = None /\ left_side[3] # None

\* A perfectly balanced tree of 2^l leaves whose leaves are the digests of
\* input elements from+1 .. from+2^l.
Covers(t, l, from) ==
    /\ Balanced(t)
    /\ Layers(t) = l + 1
    /\ Fringe(t) = LeafDigests(input, from, Pow2(l))

\* C10: after i blobs are processed, slot l is occupied exactly when bit l of
\* i is 1 and then holds a perfectly balanced subtree of 2^l leaves over a
\* contiguous run of the input; every merge combines a stored left subtree
\* and a candidate of the same depth, the left one covering the elements just
\* before those of the candidate; no candidate runs past the last slot.
C10_BinaryCounter ==
    /\ ~dropped
    /\ pc \in {"for", "pop"} =>
         \A l \in 0..(Len(left_side) - 1) :
            /\ left_side[l + 1] # None <=> Bit(i, l) = 1
            /\ left_side[l + 1] # None =>
                 Covers(left_side[l + 1][1], l, i - (i % Pow2(l + 1)))
    /\ pc = "propagate" =>
         /\ ls < Len(left_side)
         /\ right # None
         /\ Covers(right[1], ls, i + 1 - Pow2(ls))
         /\ \A l \in 0..(ls - 1) : left_side[l + 1] = None
         /\ left_side[ls + 1] # None =>
              Covers(left_side[ls + 1][1], ls, i + 1 - 2 * Pow2(ls))
         /\ \A l \in ls..(Len(left_side) - 1) :
              left_side[l + 1] # None <=> Bit(i, l) = 1

C10_Witness ==
    /\ pc = "propagate" /\ Len(input) = 4 /\ i = 3 /\ ls = 1
    /\ left_side[2] # None
    /\ Layers(left_side[2][1]) = 2 /\ Layers(right[1]) = 2

====
